---------------------------- MODULE Spec2Model ----------------------------
(***************************************************************************)
(* A model of github_activity.py: the SQLite cache of a user's event feed, *)
(* fetch_activities, filter_activities, enrich_activity, format_output and *)
(* the control flow of main.                                               *)
(*                                                                         *)
(* A Python dict is a function from its keys to its values; a missing key  *)
(* is a key outside DOMAIN.  A Python list is a sequence.  Serialized text *)
(* (JSON, YAML) is a sequence of tokens.  Time is counted in minutes.      *)
(***************************************************************************)
EXTENDS Integers, Sequences, FiniteSets, TLC

VARIABLES
    table,      \* the rows of table activities, in rowid order
    now,        \* the clock read by datetime('now'), in minutes
    calls,      \* number of calls made on the GitHubActivityAdvanced object
    ret,        \* the latest call on the object and how it ended
    pc,         \* position of main
    args,       \* the parsed command line
    filtered,   \* main's local variable filtered
    idx,        \* number of events the list comprehension of --enrich has done
    printed,    \* what the run wrote to standard output
    exitcode    \* the process's exit code, NoExit while it runs

vars == <<table, now, calls, ret, pc, args, filtered, idx, printed, exitcode>>

-----------------------------------------------------------------------------
(* Bounds of the model *)

MaxLen == 2         \* longest event list drawn for the pure functions
MaxCalls == 3       \* calls on the object in one behaviour of Spec
MaxTicks == 3       \* clock steps in one behaviour of Spec

(* Program constants *)

FreshMinutes == 10  \* datetime('now', '-10 minutes')
TickMinutes == FreshMinutes \div 2   \* the clock advances in steps of this
DefaultLimit == 10  \* --limit default
NoExit == -1        \* the process is still running

-----------------------------------------------------------------------------
(* Python helpers *)

EmptyDict == <<>>

\* dict.get(key, default)
DictGet(d, key, default) == IF key \in DOMAIN d THEN d[key] ELSE default

\* s[:n] for a list s and an int n
PySlicePrefix(s, n) ==
    LET stop == IF n >= 0 THEN (IF n < Len(s) THEN n ELSE Len(s))
                ELSE (IF Len(s) + n > 0 THEN Len(s) + n ELSE 0)
    IN  SubSeq(s, 1, stop)

RECURSIVE Concat(_)
Concat(ss) == IF ss = <<>> THEN <<>> ELSE Head(ss) \o Concat(Tail(ss))

-----------------------------------------------------------------------------
(* JSON: json.dumps and json.loads over lists of event dicts.  The text is *)
(* its token sequence: "[" "]" "{" "}" and, inside a dict, key and value   *)
(* alternating; a value is a string token or a nested dict.                *)

KeyOrder == <<"type", "repo", "created_at", "message", "repo_details">>
NestedKeys == {"repo", "repo_details"}
InnerOrder == <<"name", "stars", "forks", "description", "error">>

RECURSIVE DumpFlat(_, _, _)
DumpFlat(d, keys, i) ==
    IF i > Len(keys) THEN <<>>
    ELSE (IF keys[i] \in DOMAIN d THEN <<keys[i], d[keys[i]]>> ELSE <<>>)
         \o DumpFlat(d, keys, i + 1)

RECURSIVE DumpMembers(_, _)
DumpMembers(e, i) ==
    IF i > Len(KeyOrder) THEN <<>>
    ELSE LET k == KeyOrder[i]
         IN  (IF k \notin DOMAIN e THEN <<>>
              ELSE IF k \in NestedKeys
                   THEN <<k, "{">> \o DumpFlat(e[k], InnerOrder, 1) \o <<"}">>
                   ELSE <<k, e[k]>>)
             \o DumpMembers(e, i + 1)

DumpEvent(e) == <<"{">> \o DumpMembers(e, 1) \o <<"}">>

JsonDumps(data) ==
    <<"[">> \o Concat([i \in 1..Len(data) |-> DumpEvent(data[i])]) \o <<"]">>

\* The members of a dict from position i, up to and including its "}".
\* depth is 1 inside an event, 2 inside a nested dict.
RECURSIVE ParseMembers(_, _, _, _)
ParseMembers(toks, i, acc, depth) ==
    IF i > Len(toks) THEN [ok |-> FALSE, val |-> acc, next |-> i]
    ELSE IF toks[i] = "}" THEN [ok |-> TRUE, val |-> acc, next |-> i + 1]
    ELSE IF toks[i] \in {"{", "[", "]"} \/ i + 1 > Len(toks)
         THEN [ok |-> FALSE, val |-> acc, next |-> i]
    ELSE IF toks[i + 1] = "{"
         THEN IF depth > 1 THEN [ok |-> FALSE, val |-> acc, next |-> i]
              ELSE LET sub == ParseMembers(toks, i + 2, EmptyDict, depth + 1)
                   IN  IF ~sub.ok THEN sub
                       ELSE ParseMembers(toks, sub.next,
                                         (toks[i] :> sub.val) @@ acc, depth)
    ELSE IF toks[i + 1] \in {"}", "[", "]"}
         THEN [ok |-> FALSE, val |-> acc, next |-> i]
    ELSE ParseMembers(toks, i + 2, (toks[i] :> toks[i + 1]) @@ acc, depth)

RECURSIVE ParseElements(_, _, _)
ParseElements(toks, i, acc) ==
    IF i > Len(toks) THEN [ok |-> FALSE, val |-> acc]
    ELSE IF toks[i] = "]" THEN [ok |-> i = Len(toks), val |-> acc]
    ELSE IF toks[i] # "{" THEN [ok |-> FALSE, val |-> acc]
    ELSE LET e == ParseMembers(toks, i + 1, EmptyDict, 1)
         IN  IF ~e.ok THEN [ok |-> FALSE, val |-> acc]
             ELSE ParseElements(toks, e.next, Append(acc, e.val))

\* json.loads: ok is FALSE where it raises JSONDecodeError
JsonLoads(text) ==
    IF text = <<>> \/ Head(text) # "[" THEN [ok |-> FALSE, val |-> <<>>]
    ELSE ParseElements(text, 2, <<>>)


-----------------------------------------------------------------------------
(* The cache: table activities (username TEXT, data TEXT, timestamp)       *)

\* CREATE TABLE IF NOT EXISTS: the table of a new database file is empty,
\* an existing one is left as it is
init_cache(tbl) == tbl

\* mutant of SelectFresh: the comparison is strict
SelectFresh_strict(tbl, username, t) ==
    SelectSeq(tbl, LAMBDA r : r.username = username
                              /\ r.timestamp > t - FreshMinutes)

\* SELECT data FROM activities WHERE username = ?
\*   AND timestamp >= datetime('now', '-10 minutes')
SelectFresh(tbl, username, t) ==
    SelectSeq(tbl, LAMBDA r : r.username = username
                              /\ r.timestamp >= t - FreshMinutes)

\* hit is FALSE for None; ok is FALSE where json.loads raises
get_cached_activities(tbl, username, t) ==
    LET rows == SelectFresh(tbl, username, t)
    IN  IF rows = <<>> THEN [hit |-> FALSE, ok |-> TRUE, val |-> <<>>]
        ELSE LET r == JsonLoads(rows[1].data)
             IN  [hit |-> TRUE, ok |-> r.ok, val |-> r.val]

\* DELETE FROM activities WHERE username = ?
DeleteRows(tbl, username) ==
    SelectSeq(tbl, LAMBDA r : r.username # username)

\* mutant of cache_activities: the DELETE is missing
cache_activities_noDelete(tbl, username, data, t) ==
    Append(tbl, [username |-> username, data |-> JsonDumps(data), timestamp |-> t])

\* DELETE, then INSERT ... VALUES (?, ?, datetime("now")), in one transaction
cache_activities(tbl, username, data, t) ==
    Append(DeleteRows(tbl, username),
           [username |-> username, data |-> JsonDumps(data), timestamp |-> t])

-----------------------------------------------------------------------------
(* fetch_activities.  The answer of the remote API is the input resp:      *)
(*   [kind |-> "ok", body |-> text]               a 2xx response           *)
(*   [kind |-> "http", code, reason, headers]     urlopen raises HTTPError *)
(*   [kind |-> "url", reason]                     urlopen raises URLError  *)
(* The result says how the call ended: "return" with a value, "exit" with  *)
(* sys.exit(code), or "raise" with the exception that escapes it; with the *)
(* table it leaves, the lines it printed and the requests it sent.         *)

None == "<None>"

\* what one call of print writes: the lines (or tokens) of its argument
Stdout(line) == <<line>>

\* datetime.fromtimestamp(int(text)) for the epoch texts of the model;
\* int(None) raises TypeError, int of another text ValueError
EpochText == ("1705314600" :> "2024-01-15 10:30:00")

Returned(v, tbl, n) ==
    [kind |-> "return", value |-> v, table |-> tbl, out |-> <<>>, net |-> n,
     exc |-> "", code |-> 0]
Exited(c, tbl, lines, n) ==
    [kind |-> "exit", value |-> <<>>, table |-> tbl, out |-> lines, net |-> n,
     exc |-> "SystemExit", code |-> c]
Raised(e, tbl, lines, n) ==
    [kind |-> "raise", value |-> <<>>, table |-> tbl, out |-> lines, net |-> n,
     exc |-> e, code |-> 0]

\* except HTTPError as e
OnHTTPError(tbl, resp) ==
    LET api == "API Error: " \o resp.code \o " " \o resp.reason
        reset == DictGet(resp.headers, "X-RateLimit-Reset", None)
    IN  IF DictGet(resp.headers, "X-RateLimit-Remaining", None) = "0"
        THEN IF reset = None THEN Raised("TypeError", tbl, <<Stdout(api)>>, 1)
             ELSE IF reset \notin DOMAIN EpochText
             THEN Raised("ValueError", tbl, <<Stdout(api)>>, 1)
             ELSE Exited(1, tbl,
                         <<Stdout(api),
                           Stdout("Rate limit exceeded. Reset at "
                                  \o EpochText[reset])>>, 1)
        ELSE Exited(1, tbl, <<Stdout(api)>>, 1)

\* except URLError as e
OnURLError(tbl, resp) ==
    Exited(1, tbl, <<Stdout("Connection Error: " \o resp.reason)>>, 1)

\* mutant of FetchFromNetwork: the response is cached whatever use_cache is
FetchFromNetwork_alwaysCache(tbl, t, username, use_cache, resp) ==
    IF resp.kind = "ok"
    THEN LET data == JsonLoads(resp.body)
         IN  IF ~data.ok THEN Raised("JSONDecodeError", tbl, <<>>, 1)
             ELSE Returned(data.val,
                           cache_activities(tbl, username, data.val, t), 1)
    ELSE IF resp.kind = "http" THEN OnHTTPError(tbl, resp)
    ELSE OnURLError(tbl, resp)

\* the try block after one GET, and its two handlers
FetchFromNetwork(tbl, t, username, use_cache, resp) ==
    IF resp.kind = "ok"
    THEN LET data == JsonLoads(resp.body)
         IN  IF ~data.ok THEN Raised("JSONDecodeError", tbl, <<>>, 1)
             ELSE Returned(data.val,
                           IF use_cache
                           THEN cache_activities(tbl, username, data.val, t)
                           ELSE tbl,
                           1)
    ELSE IF resp.kind = "http" THEN OnHTTPError(tbl, resp)
    ELSE OnURLError(tbl, resp)

fetch_activities(tbl, t, username, use_cache, resp) ==
    LET cached == get_cached_activities(tbl, username, t)
    IN  IF use_cache /\ ~cached.ok THEN Raised("JSONDecodeError", tbl, <<>>, 0)
        ELSE IF use_cache /\ cached.hit /\ cached.val # <<>>   \* if cached:
        THEN Returned(cached.val, tbl, 0)
        ELSE FetchFromNetwork(tbl, t, username, use_cache, resp)

-----------------------------------------------------------------------------
(* Inputs *)

Usernames == {"octocat", "torvalds"}

Timestamp == "2024-01-15T10:30:00Z"

PushBare == [type |-> "PushEvent", repo |-> [name |-> "a/b"]]
IssuesBare == [type |-> "IssuesEvent", repo |-> [name |-> "a/b"]]
PushFull == [type |-> "PushEvent", repo |-> [name |-> "a/b"],
             created_at |-> Timestamp, message |-> "fix"]
WatchFull == [type |-> "WatchEvent", repo |-> [name |-> "c/d"],
              created_at |-> Timestamp]
PullFull == [type |-> "PullRequestEvent", repo |-> [name |-> "c/d"],
             created_at |-> Timestamp]
ResetFull == [type |-> "reset", repo |-> [name |-> "c/d"],
              created_at |-> Timestamp]
NoRepo == [type |-> "WatchEvent", created_at |-> Timestamp]
NoType == [repo |-> [name |-> "a/b"], created_at |-> Timestamp]
BadDate == [type |-> "IssuesEvent", repo |-> [name |-> "a/b"],
            created_at |-> "2024-01-15 10:30:00"]

\* the event lists the API answers with in Spec and SpecMain
Payloads == {<<>>, <<PushBare, IssuesBare>>, <<PushFull, NoRepo>>}

RateLimited ==
    ("X-RateLimit-Remaining" :> "0") @@ ("X-RateLimit-Reset" :> "1705314600")
NoResetHeader == ("X-RateLimit-Remaining" :> "0")
BadResetHeader ==
    ("X-RateLimit-Remaining" :> "0") @@ ("X-RateLimit-Reset" :> "soon")
QuotaLeft ==
    ("X-RateLimit-Remaining" :> "59") @@ ("X-RateLimit-Reset" :> "1705314600")

Responses ==
    {[kind |-> "ok", body |-> JsonDumps(p)] : p \in Payloads}
    \cup {[kind |-> "ok", body |-> <<"<html>">>]}
    \cup {[kind |-> "http", code |-> "403", reason |-> "Forbidden", headers |-> h] :
            h \in {RateLimited, NoResetHeader, BadResetHeader, QuotaLeft}}
    \cup {[kind |-> "http", code |-> "404", reason |-> "Not Found",
           headers |-> EmptyDict]}
    \cup {[kind |-> "url", reason |-> "timed out"]}

-----------------------------------------------------------------------------
(* Spec: calls on one GitHubActivityAdvanced object, in any order, while   *)
(* the clock runs.  main is not running.                                   *)

NoArgs == [username |-> "", use_cache |-> TRUE, limit |-> DefaultLimit,
           format |-> "text", types |-> <<>>, repos |-> <<>>,
           color |-> FALSE, enrich |-> FALSE]

NoResponse == [kind |-> "none"]

NoCall == [op |-> "none", username |-> "", use_cache |-> FALSE,
           kind |-> "return", hit |-> FALSE, value |-> <<>>, net |-> 0,
           exc |-> "", resp |-> NoResponse]

MainIdle ==
    /\ pc = "idle"
    /\ args = NoArgs
    /\ filtered = <<>>
    /\ idx = 0
    /\ printed = <<>>
    /\ exitcode = NoExit

Init ==
    /\ table = init_cache(<<>>)
    /\ now = 0
    /\ calls = 0
    /\ ret = NoCall
    /\ MainIdle

mainVars == <<pc, args, filtered, idx, printed, exitcode>>

Tick ==
    /\ now + TickMinutes <= MaxTicks * TickMinutes
    /\ now' = now + TickMinutes
    /\ UNCHANGED <<table, calls, ret, mainVars>>

\* what ret records of a call of fetch_activities
FetchRecord(username, use_cache, resp, r) ==
    [op |-> "fetch", username |-> username, use_cache |-> use_cache,
     kind |-> r.kind, hit |-> r.kind = "return" /\ r.net = 0,
     value |-> r.value, net |-> r.net, exc |-> r.exc,
     resp |-> IF r.net = 0 THEN NoResponse ELSE resp]

CallFetch ==
    /\ pc = "idle" /\ calls < MaxCalls
    /\ \E u \in Usernames, uc \in BOOLEAN, resp \in Responses :
         LET r == fetch_activities(table, now, u, uc, resp)
         IN  /\ table' = r.table
             /\ ret' = FetchRecord(u, uc, resp, r)
    /\ calls' = calls + 1
    /\ UNCHANGED <<now, mainVars>>

CallGetCached ==
    /\ pc = "idle" /\ calls < MaxCalls
    /\ \E u \in Usernames :
         LET c == get_cached_activities(table, u, now)
         IN  ret' = [NoCall EXCEPT !.op = "get", !.username = u,
                                   !.hit = c.hit, !.value = c.val,
                                   !.kind = IF c.ok THEN "return" ELSE "raise"]
    /\ calls' = calls + 1
    /\ UNCHANGED <<table, now, mainVars>>

CallCache ==
    /\ pc = "idle" /\ calls < MaxCalls
    /\ \E u \in Usernames, data \in Payloads :
         /\ table' = cache_activities(table, u, data, now)
         /\ ret' = [NoCall EXCEPT !.op = "put", !.username = u,
                                  !.value = data]
    /\ calls' = calls + 1
    /\ UNCHANGED <<now, mainVars>>

Next == Tick \/ CallFetch \/ CallGetCached \/ CallCache

Spec == Init /\ [][Next]_vars

-----------------------------------------------------------------------------
(* filter_activities *)

Range(f) == {f[i] : i \in DOMAIN f}

\* mutant of Matches: one matching dimension is enough
Matches_either(activity, filters) ==
    \/ (filters.types # <<>> /\ DictGet(activity, "type", None) \in Range(filters.types))
    \/ (filters.repos # <<>>
        /\ DictGet(DictGet(activity, "repo", EmptyDict), "name", "")
              \in Range(filters.repos))
    \/ (filters.types = <<>> /\ filters.repos = <<>>)

\* filters.types and filters.repos are lists; <<>> stands for None, which
\* argparse gives when the flag is absent (nargs='+' never gives [])
Matches(activity, filters) ==
    LET event_type == DictGet(activity, "type", None)
        repo == DictGet(DictGet(activity, "repo", EmptyDict), "name", "")
        type_match == filters.types = <<>> \/ event_type \in Range(filters.types)
        repo_match == filters.repos = <<>> \/ repo \in Range(filters.repos)
    IN  type_match /\ repo_match

\* the for loop, from activity i on, appending to filtered
RECURSIVE FilterLoop(_, _, _, _)
FilterLoop(activities, filters, i, acc) ==
    IF i > Len(activities) THEN acc
    ELSE FilterLoop(activities, filters, i + 1,
                    IF Matches(activities[i], filters)
                    THEN Append(acc, activities[i]) ELSE acc)

\* mutant of filter_activities: nothing is filtered out
filter_activities_all(activities, filters) == activities

filter_activities(activities, filters) == FilterLoop(activities, filters, 1, <<>>)

-----------------------------------------------------------------------------
(* enrich_activity.  The answer of the repository endpoint is the input    *)
(* lookup: [kind |-> "ok", data |-> dict], or [kind |-> "error", message]  *)
(* for whatever the try block raises (HTTPError, URLError, a decode error).*)

RepoDetails(repo_data) ==
    [stars |-> DictGet(repo_data, "stargazers_count", None),
     forks |-> DictGet(repo_data, "forks_count", None),
     description |-> DictGet(repo_data, "description", None)]

\* ok is FALSE where the call raises exc: activity['repo']['name'] is
\* evaluated before the try block
enrich_activity(activity, lookup) ==
    IF "repo" \notin DOMAIN activity
    THEN [ok |-> FALSE, val |-> activity, exc |-> "KeyError", msg |-> "'repo'"]
    ELSE IF "name" \notin DOMAIN activity["repo"]
    THEN [ok |-> FALSE, val |-> activity, exc |-> "KeyError", msg |-> "'name'"]
    ELSE LET details == IF lookup.kind = "ok" THEN RepoDetails(lookup.data)
                        ELSE [error |-> lookup.message]
         IN  [ok |-> TRUE, val |-> ("repo_details" :> details) @@ activity,
              exc |-> "", msg |-> ""]

Lookups ==
    {[kind |-> "ok", data |-> [stargazers_count |-> "42", forks_count |-> "7",
                               description |-> "demo"]],
     [kind |-> "error", message |-> "HTTP Error 404: Not Found"],
     [kind |-> "error", message |-> "Expecting value: line 1 column 1 (char 0)"]}

-----------------------------------------------------------------------------
(* format_output.  A text of several lines is the sequence of its lines.   *)

Formats == {"text", "json", "yaml", "table"}

colors == ("PushEvent" :> "\\033[92m") @@ ("PullRequestEvent" :> "\\033[94m")
          @@ ("IssuesEvent" :> "\\033[93m") @@ ("reset" :> "\\033[0m")

Formatted(v) == [ok |-> TRUE, val |-> v, exc |-> "", msg |-> ""]
FormatRaised(e, m) == [ok |-> FALSE, val |-> <<>>, exc |-> e, msg |-> m]

TextLine(act, color) ==
    LET line == "- " \o act["type"] \o ": " \o DictGet(act, "message", "")
    IN  IF color /\ act["type"] \in DOMAIN colors
        THEN colors[act["type"]] \o line \o colors["reset"]
        ELSE line

format_text(activities, color) ==
    IF \E i \in 1..Len(activities) : "type" \notin DOMAIN activities[i]
    THEN FormatRaised("KeyError", "'type'")
    ELSE Formatted([i \in 1..Len(activities) |-> TextLine(activities[i], color)])

\* datetime.strptime(s, "%Y-%m-%dT%H:%M:%SZ").strftime("%Y-%m-%d %H:%M") for
\* the timestamps of the model; strptime raises ValueError on any other text
DateCell == (Timestamp :> "2024-01-15 10:30")

\* the first exception the loop body raises on act, "" when it raises none
TableRowError(act) ==
    IF "created_at" \notin DOMAIN act THEN <<"KeyError", "'created_at'">>
    ELSE IF act["created_at"] \notin DOMAIN DateCell
    THEN <<"ValueError", "time data does not match format">>
    ELSE IF "type" \notin DOMAIN act THEN <<"KeyError", "'type'">>
    ELSE IF "repo" \notin DOMAIN act THEN <<"KeyError", "'repo'">>
    ELSE IF "name" \notin DOMAIN act["repo"] THEN <<"KeyError", "'name'">>
    ELSE <<"", "">>

TableRow(act) ==
    "| " \o DateCell[act["created_at"]] \o " | " \o act["type"] \o " | "
    \o act["repo"]["name"] \o " | " \o DictGet(act, "message", "") \o " |"

TableHead == <<"", "| Date | Type | Repository | Details |",
               "|------|------|------------|---------|">>

format_table(activities, color) ==
    LET bad == {i \in 1..Len(activities) : TableRowError(activities[i])[1] # ""}
    IN  IF bad # {}
        THEN LET first == CHOOSE i \in bad : \A j \in bad : i <= j
             IN  FormatRaised(TableRowError(activities[first])[1],
                              TableRowError(activities[first])[2])
        ELSE Formatted(TableHead
                       \o [i \in 1..Len(activities) |-> TableRow(activities[i])])

\* yaml.dump(activities, allow_unicode=True): block style, one "-" per item,
\* the keys of a dict sorted; ">" and "<" open and close a nested block
YamlOrder == <<"created_at", "message", "repo", "repo_details", "type">>
YamlInnerOrder == <<"description", "error", "forks", "name", "stars">>

RECURSIVE YamlMembers(_, _)
YamlMembers(e, i) ==
    IF i > Len(YamlOrder) THEN <<>>
    ELSE LET k == YamlOrder[i]
         IN  (IF k \notin DOMAIN e THEN <<>>
              ELSE IF k \in NestedKeys
                   THEN <<k, ">">> \o DumpFlat(e[k], YamlInnerOrder, 1) \o <<"<">>
                   ELSE <<k, e[k]>>)
             \o YamlMembers(e, i + 1)

YamlDump(data) ==
    IF data = <<>> THEN <<"[]">>
    ELSE Concat([i \in 1..Len(data) |-> <<"-">> \o YamlMembers(data[i], 1)])

format_output(activities, output_format, color) ==
    IF output_format = "json" THEN Formatted(JsonDumps(activities))
    ELSE IF output_format = "yaml" THEN Formatted(YamlDump(activities))
    ELSE IF output_format = "table" THEN format_table(activities, color)
    ELSE format_text(activities, color)

-----------------------------------------------------------------------------
(* main, after parse_args: fetch, filter and truncate, enrich, format and  *)
(* print, under its two exception handlers.                                *)

\* mutant of MainExcept: the decode handler prints and forgets sys.exit(1)
MainExcept_noExit(exc, msg) ==
    IF exc = "JSONDecodeError"
    THEN [line |-> "Error processing API response", code |-> 0]
    ELSE [line |-> "Unexpected error: " \o msg, code |-> 1]

\* except json.JSONDecodeError / except Exception, for exception exc with
\* text msg: the line printed and the exit code
MainExcept(exc, msg) ==
    IF exc = "JSONDecodeError"
    THEN [line |-> "Error processing API response", code |-> 1]
    ELSE [line |-> "Unexpected error: " \o msg, code |-> 1]

\* str(e) of the exceptions that escape fetch_activities
FetchExcText(exc) ==
    IF exc = "TypeError"
    THEN "int() argument must be a string, a bytes-like object or a real number, not 'NoneType'"
    ELSE IF exc = "ValueError" THEN "invalid literal for int() with base 10"
    ELSE exc

\* the run ends in a handler of main
Abort(lines, exc, msg) ==
    /\ pc' = "exit"
    /\ printed' = printed \o lines \o <<Stdout(MainExcept(exc, msg).line)>>
    /\ exitcode' = MainExcept(exc, msg).code

\* GitHubActivityAdvanced(), then github.fetch_activities(args.username,
\* args.token, args.no_cache)
MainFetch ==
    /\ pc = "fetch"
    /\ \E resp \in Responses :
         LET r == fetch_activities(init_cache(table), now, args.username,
                                   args.use_cache, resp)
         IN  /\ table' = r.table
             /\ ret' = FetchRecord(args.username, args.use_cache, resp, r)
             /\ IF r.kind = "return"
                THEN pc' = "filter" /\ UNCHANGED <<printed, exitcode>>
                ELSE IF r.kind = "exit"     \* SystemExit is no Exception
                THEN /\ pc' = "exit"
                     /\ printed' = printed \o r.out
                     /\ exitcode' = r.code
                ELSE Abort(r.out, r.exc, FetchExcText(r.exc))
    /\ calls' = calls + 1
    /\ UNCHANGED <<now, args, filtered, idx>>

\* filtered = github.filter_activities(activities, {...})[:args.limit]
MainFilter ==
    /\ pc = "filter"
    /\ filtered' = PySlicePrefix(
                      filter_activities(ret.value, [types |-> args.types,
                                                    repos |-> args.repos]),
                      args.limit)
    /\ pc' = IF args.enrich /\ filtered' # <<>> THEN "enrich" ELSE "format"
    /\ UNCHANGED <<table, now, calls, ret, args, idx, printed, exitcode>>

\* one element of [github.enrich_activity(a) for a in filtered]
MainEnrich ==
    /\ pc = "enrich"
    /\ \E lookup \in Lookups :
         LET r == enrich_activity(filtered[idx + 1], lookup)
         IN  IF r.ok
             THEN /\ filtered' = [filtered EXCEPT ![idx + 1] = r.val]
                  /\ idx' = idx + 1
                  /\ pc' = IF idx + 1 = Len(filtered) THEN "format" ELSE "enrich"
                  /\ UNCHANGED <<printed, exitcode>>
             ELSE /\ Abort(<<>>, r.exc, r.msg)
                  /\ UNCHANGED <<filtered, idx>>
    /\ UNCHANGED <<table, now, calls, ret, args>>

\* output = github.format_output(filtered, args.format, args.color);
\* print(output); the process then ends with code 0
MainFormat ==
    /\ pc = "format"
    /\ LET r == format_output(filtered, args.format, args.color)
       IN  IF r.ok
           THEN /\ pc' = "exit"
                /\ printed' = Append(printed, r.val)
                /\ exitcode' = 0
           ELSE Abort(<<>>, r.exc, r.msg)
    /\ UNCHANGED <<table, now, calls, ret, args, filtered, idx>>

\* parse_args: the command lines drawn in SpecMain
MainArgs ==
    [username : Usernames, use_cache : BOOLEAN, limit : {DefaultLimit},
     format : Formats, types : {<<>>, <<"PushEvent">>}, repos : {<<>>},
     color : {FALSE}, enrich : BOOLEAN]

MainStart ==
    /\ pc = "idle"
    /\ args' \in MainArgs
    /\ pc' = "fetch"
    /\ UNCHANGED <<table, now, calls, ret, filtered, idx, printed, exitcode>>

\* the cache files a run may find: left by earlier runs, FreshMinutes or
\* 2 * FreshMinutes before this one, or just before it
CacheRow(username, data, t) ==
    [username |-> username, data |-> JsonDumps(data), timestamp |-> t]

InitTables ==
    {<<>>}
    \cup {<<CacheRow("octocat", p, 2 * FreshMinutes)>> : p \in Payloads}
    \cup {<<CacheRow("octocat", <<PushFull, NoRepo>>, t)>> : t \in {0, FreshMinutes}}
    \cup {<<CacheRow("octocat", <<PushBare, IssuesBare>>, 0),
            CacheRow("torvalds", <<PushFull, NoRepo>>, 2 * FreshMinutes)>>}

InitMain ==
    /\ table \in InitTables
    /\ now = 2 * FreshMinutes
    /\ calls = 0
    /\ ret = NoCall
    /\ MainIdle

NextMain == MainStart \/ MainFetch \/ MainFilter \/ MainEnrich \/ MainFormat

SpecMain == InitMain /\ [][NextMain]_vars

-----------------------------------------------------------------------------
(* SpecFilter: main at its filter statement, over every event list of up   *)
(* to MaxLen events and a range of --types, --repos and --limit.           *)

RECURSIVE ListsUpTo(_, _)
ListsUpTo(S, n) ==
    IF n = 0 THEN {<<>>}
    ELSE LET shorter == ListsUpTo(S, n - 1)
         IN  shorter \cup {Append(l, e) : l \in shorter, e \in S}

FilterEvents == {PushBare, IssuesBare, WatchFull, PullFull, NoRepo, NoType}

FilterArgs ==
    [username : {"octocat"}, use_cache : {FALSE},
     limit : {-1, 0, 1, 2, DefaultLimit},
     format : {"text"},
     types : {<<>>, <<"PushEvent">>, <<"IssuesEvent", "PushEvent">>},
     repos : {<<>>, <<"a/b">>, <<"c/d", "e/f">>},
     color : {FALSE}, enrich : {FALSE}]

\* fetch_activities has returned data from the network, the cache is off
Fetched(data) ==
    [NoCall EXCEPT !.op = "fetch", !.username = "octocat", !.value = data,
                   !.net = 1, !.resp = [kind |-> "ok", body |-> JsonDumps(data)]]

InitFilter ==
    /\ table = <<>>
    /\ now = 0
    /\ calls = 1
    /\ ret \in {Fetched(l) : l \in ListsUpTo(FilterEvents, MaxLen)}
    /\ pc = "filter"
    /\ args \in FilterArgs
    /\ filtered = <<>>
    /\ idx = 0
    /\ printed = <<>>
    /\ exitcode = NoExit

SpecFilter == InitFilter /\ [][MainFilter]_vars

-----------------------------------------------------------------------------
(* SpecFormat: main at its format statement, over every retained list of   *)
(* up to MaxLen events, every format, with and without --color.            *)

FormatEvents == {PushFull, IssuesBare, WatchFull, PullFull, ResetFull, BadDate}

FormatArgs ==
    [username : {"octocat"}, use_cache : {FALSE}, limit : {DefaultLimit},
     format : Formats, types : {<<>>}, repos : {<<>>},
     color : BOOLEAN, enrich : {FALSE}]

InitFormat ==
    /\ table = <<>>
    /\ now = 0
    /\ calls = 1
    /\ \E l \in ListsUpTo(FormatEvents, MaxLen) :
         ret = Fetched(l) /\ filtered = l
    /\ pc = "format"
    /\ args \in FormatArgs
    /\ idx = 0
    /\ printed = <<>>
    /\ exitcode = NoExit

SpecFormat == InitFormat /\ [][MainFormat]_vars

-----------------------------------------------------------------------------
(* Properties *)

\* a call on the object has just ended
Called(op) == calls' = calls + 1 /\ ret'.op = op

\* the rows of one username, in table order
RowsOf(tbl, username) == SelectSeq(tbl, LAMBDA r : r.username = username)

\* C1 (as stated): whenever fetch_activities(username, use_cache=True) is
\* called while the table holds a row of that username less than 10 minutes
\* old that stores the list L, the empty list included, the call returns
\* exactly L and sends no request.
C1_FreshEntryReturnedWithoutRequest ==
    [][\A i \in 1..Len(table) :
         (/\ Called("fetch") /\ ret'.use_cache
          /\ table[i].username = ret'.username
          /\ now - table[i].timestamp < FreshMinutes)
         => (/\ ret'.kind = "return"
             /\ ret'.net = 0
             /\ JsonDumps(ret'.value) = table[i].data)]_vars

\* the list a row stores is L
Stores(row, L) == row.data = JsonDumps(L)

\* C2 (as stated): _get_cached_activities(username) returns the stored list
\* exactly when a row of that username exists whose age now - timestamp is
\* strictly less than 10 minutes; otherwise it returns None.
C2_ReturnedIffYoungerThanWindow ==
    [][Called("get") =>
         LET young == {i \in 1..Len(table) :
                         /\ table[i].username = ret'.username
                         /\ now - table[i].timestamp < FreshMinutes}
         IN  /\ ret'.hit <=> young # {}
             /\ ret'.hit =>
                  \E i \in young, L \in Payloads :
                     Stores(table[i], L) /\ ret'.value = L]_vars

\* C2 (amended): _get_cached_activities(username) returns the stored list
\* exactly when a row of that username exists whose age now - timestamp is
\* at most 10 minutes; for an age above 10 minutes, and when there is no
\* row, it returns None.
C2_ReturnedIffWithinWindow ==
    [][Called("get") =>
         LET usable == {i \in 1..Len(table) :
                          /\ table[i].username = ret'.username
                          /\ now - table[i].timestamp <= FreshMinutes}
         IN  /\ ret'.hit <=> usable # {}
             /\ ret'.hit =>
                  \E i \in usable, L \in Payloads :
                     Stores(table[i], L) /\ ret'.value = L]_vars

\* C2 witness: _get_cached_activities has returned the list of a row that is
\* exactly 10 minutes old.
C2_HitAtWindowEdge ==
    /\ ret.op = "get" /\ ret.hit /\ ret.value # <<>>
    /\ \E i \in 1..Len(table) :
         table[i].username = ret.username /\ now - table[i].timestamp = FreshMinutes

\* C3: from an empty table, after any calls of fetch_activities and
\* _cache_activities, the table holds at most one row per username, and
\* right after _cache_activities(username, data) that row stores data with
\* the time of the write.
C3_OneRowPerUsername ==
    [][/\ \A u \in Usernames : Len(RowsOf(table', u)) <= 1
       /\ Called("put") =>
            /\ Len(RowsOf(table', ret'.username)) = 1
            /\ Stores(RowsOf(table', ret'.username)[1], ret'.value)
            /\ RowsOf(table', ret'.username)[1].timestamp = now]_vars

\* C3 witness: both usernames have a row, the later one written by a direct
\* _cache_activities after the clock moved, at least three calls in.
C3_TwoUsersCached ==
    /\ ret.op = "put" /\ calls >= 3 /\ now > 0
    /\ Len(table) = 2
    /\ table[2].username = ret.username /\ table[2].timestamp = now
    /\ table[1].username # ret.username

\* the claims' matching rule: a dimension with no filter allows every event,
\* a dimension with a filter allows the events whose field is in it
Allowed(e, types, repos) ==
    /\ \/ types = <<>>
       \/ "type" \in DOMAIN e /\ \E k \in 1..Len(types) : types[k] = e["type"]
    /\ \/ repos = <<>>
       \/ /\ "repo" \in DOMAIN e /\ "name" \in DOMAIN e["repo"]
          /\ \E k \in 1..Len(repos) : repos[k] = e["repo"]["name"]

\* the allowed events of a list, in the order of the list
AllowedSubsequence(events, types, repos) ==
    LET keep == {i \in 1..Len(events) : Allowed(events[i], types, repos)}
        nth(j) == CHOOSE i \in keep : Cardinality({k \in keep : k <= i}) = j
    IN  [j \in 1..Cardinality(keep) |-> events[nth(j)]]

\* C4: filter_activities returns exactly the subsequence, in input order, of
\* the events whose type is allowed by --types and whose repository name is
\* allowed by --repos (seen in filtered when the limit cuts nothing off).
C4_FilterIsAllowedSubsequence ==
    (pc # "filter" /\ args.limit >= Len(ret.value))
    => filtered = AllowedSubsequence(ret.value, args.types, args.repos)

\* C4 witness: of two fetched events, a --types and a --repos filter together
\* have kept one and dropped one.
C4_OneKeptOneDropped ==
    /\ pc = "format" /\ args.limit = DefaultLimit
    /\ args.types # <<>> /\ args.repos # <<>>
    /\ Len(ret.value) = 2 /\ Len(filtered) = 1

\* C5 (as stated): for every integer --limit, the list main hands on after
\* filtering is the first N matches and is never longer than the limit
\* (read in the claim's favour for a limit below 0: never longer than 0).
C5_AtMostLimitFirstMatches ==
    pc # "filter" =>
      LET matches == AllowedSubsequence(ret.value, args.types, args.repos)
          N == IF args.limit > 0 THEN args.limit ELSE 0
      IN  /\ Len(filtered) <= N
          /\ Len(filtered) <= Len(matches)
          /\ filtered = SubSeq(matches, 1, Len(filtered))
          /\ Len(filtered) < Len(matches) => Len(filtered) = N

\* C6 (as stated): with --enrich, once the events are fetched and filtered,
\* no failure of enrich_activity, a missing repo in the event included, ends
\* the run: every retained event gets repo_details and the run goes on to
\* format them all.
C6_EnrichmentNeverAborts ==
    (pc = "exit" /\ args.enrich /\ ret.kind = "return")
    => /\ idx = Len(filtered)
       /\ \A i \in 1..Len(filtered) : "repo_details" \in DOMAIN filtered[i]

\* the primary fetch of the run failed
FetchFailed == ret.op = "fetch" /\ ret.kind # "return"

RateLimitHit ==
    /\ ret.resp.kind = "http"
    /\ DictGet(ret.resp.headers, "X-RateLimit-Remaining", None) = "0"

ApiErrorLine == "API Error: " \o ret.resp.code \o " " \o ret.resp.reason

ResetReported ==
    \E i \in 1..Len(printed), h \in DOMAIN EpochText :
       printed[i] = <<"Rate limit exceeded. Reset at " \o EpochText[h]>>

\* a failed fetch: exit code 1, one request, and on standard output the
\* diagnostics only
FailedFetchOutcome ==
    /\ exitcode = 1
    /\ ret.net = 1
    /\ ret.resp.kind = "url"
         => printed = <<<<"Connection Error: " \o ret.resp.reason>>>>
    /\ ret.resp.kind = "ok"
         => printed = <<<<"Error processing API response">>>>
    /\ ret.resp.kind = "http"
         => /\ printed[1] = <<ApiErrorLine>>
            /\ Len(printed) <= 2
            /\ ~RateLimitHit => Len(printed) = 1

\* exit code 0 only after every stage: fetched, filtered, enriched when
\* asked to, and the retained events printed by one print call
SuccessOutcome ==
    /\ ret.op = "fetch" /\ ret.kind = "return"
    /\ Len(filtered) <= Len(ret.value)
    /\ args.enrich =>
         /\ idx = Len(filtered)
         /\ \A i \in 1..Len(filtered) : "repo_details" \in DOMAIN filtered[i]
    /\ Len(printed) = 1
    /\ args.format = "table" => Len(printed[1]) = Len(TableHead) + Len(filtered)
    /\ args.format = "text" => Len(printed[1]) = Len(filtered)

\* C7 (as stated): a run ends with exit code 0 or 1; with 1, after a single
\* request and with no formatted events printed, whenever the primary fetch
\* fails, the reset time being reported whenever X-RateLimit-Remaining is
\* "0"; with 0 only when every stage completed.
C7_ExitCodes ==
    pc = "exit" =>
      /\ exitcode \in {0, 1}
      /\ FetchFailed => (FailedFetchOutcome /\ (RateLimitHit => ResetReported))
      /\ exitcode = 0 => SuccessOutcome

\* C7 (amended): as stated, except that the reset time is reported when
\* X-RateLimit-Remaining is "0" and X-RateLimit-Reset holds a valid epoch
\* integer; when that header is missing or unusable the run reports an
\* unexpected error after the API error line, and still ends with 1.
C7_ExitCodesResetWhenGiven ==
    pc = "exit" =>
      /\ exitcode \in {0, 1}
      /\ FetchFailed =>
           /\ FailedFetchOutcome
           /\ RateLimitHit =>
                IF DictGet(ret.resp.headers, "X-RateLimit-Reset", None)
                     \in DOMAIN EpochText
                THEN ResetReported /\ Len(printed) = 2
                ELSE /\ ~ResetReported
                     /\ printed = <<<<ApiErrorLine>>,
                                    <<"Unexpected error: " \o FetchExcText(ret.exc)>>>>
      /\ exitcode = 0 => SuccessOutcome

\* C7 witness: the run has ended with 1 on a rate-limited answer that names
\* its reset time.
C7_RateLimitedExit ==
    /\ pc = "exit" /\ exitcode = 1 /\ FetchFailed /\ RateLimitHit
    /\ "X-RateLimit-Reset" \in DOMAIN ret.resp.headers
    /\ ResetReported

AssignedColors == {"PushEvent", "PullRequestEvent", "IssuesEvent"}

\* C8 (as stated): in text mode a line is wrapped in its color sequence and
\* the reset sequence exactly when --color is given and the type is
\* PushEvent, PullRequestEvent or IssuesEvent; every other line is the bare
\* "- <type>: <message>".
C8_OnlyAssignedTypesColored ==
    (pc = "exit" /\ exitcode = 0 /\ args.format = "text") =>
      \A i \in 1..Len(filtered) :
         LET e == filtered[i]
             bare == "- " \o e["type"] \o ": " \o DictGet(e, "message", "")
         IN  printed[1][i] =
               IF args.color /\ e["type"] \in AssignedColors
               THEN colors[e["type"]] \o bare \o "\\033[0m"
               ELSE bare

\* the run of C9: --types PushEvent and nothing else, answered from a cache
\* entry that holds the two bare events
TwoCachedEventsRun ==
    /\ pc = "exit"
    /\ args.use_cache /\ args.types = <<"PushEvent">> /\ ~args.enrich
    /\ ret.op = "fetch" /\ ret.hit
    /\ ret.value = <<PushBare, IssuesBare>>

PushBareAs(format) ==
    IF format = "text" THEN <<"- PushEvent: ">>
    ELSE IF format = "json"
    THEN <<"[", "{", "type", "PushEvent", "repo", "{", "name", "a/b", "}", "}", "]">>
    ELSE <<"-", "repo", ">", "name", "a/b", "<", "type", "PushEvent">>

\* C9 (as stated): the run succeeds and prints exactly the first event, in
\* each of the formats text, json, yaml and table.
C9_FirstEventInEveryFormat ==
    TwoCachedEventsRun =>
      /\ exitcode = 0
      /\ Len(printed) = 1
      /\ args.format # "table" => printed[1] = PushBareAs(args.format)
      /\ args.format = "table" => Len(printed[1]) = Len(TableHead) + 1

\* C9 (amended): the run succeeds and prints exactly the first event in the
\* formats text, json and yaml; in table format it ends with exit code 1 on
\* the missing created_at and prints only the error line.
C9_FirstEventExceptTable ==
    TwoCachedEventsRun =>
      IF args.format = "table"
      THEN exitcode = 1 /\ printed = <<<<"Unexpected error: 'created_at'">>>>
      ELSE exitcode = 0 /\ printed = <<PushBareAs(args.format)>>

\* C9 witness: the table run over the two cached bare events has ended.
C9_TableRunEnded ==
    TwoCachedEventsRun /\ args.format = "table" /\ exitcode = 1

\* C10: the table changes only in the fetch step of a run with caching
\* enabled whose request succeeded, and then only in the rows of the fetched
\* username, which become one row holding the fetched payload and the time
\* of the write; every other step leaves every row as it is.
C10_OnlyCachingFetchWrites ==
    [][table' # table =>
         /\ pc = "fetch" /\ args.use_cache
         /\ ret'.kind = "return" /\ ret'.net = 1 /\ ret'.resp.kind = "ok"
         /\ \A u \in Usernames \ {args.username} :
              RowsOf(table', u) = RowsOf(table, u)
         /\ RowsOf(table', args.username)
              = <<[username |-> args.username, data |-> ret'.resp.body,
                   timestamp |-> now]>>]_vars

\* C10 witness: a run that wrote the fetched payload next to another
\* username's row has gone through every later stage and ended with 0.
C10_WroteBesideOtherRow ==
    /\ pc = "exit" /\ exitcode = 0 /\ args.use_cache /\ args.enrich
    /\ ret.net = 1 /\ ret.value # <<>>
    /\ Len(table) = 2
    /\ table[1].username # args.username
    /\ table[2] = [username |-> args.username, data |-> ret.resp.body,
                   timestamp |-> now]

=============================================================================
